---- MODULE Spec2Model ----
(***************************************************************************)
(* A model of scripts/download/tools.ts: the dependency fetcher that      *)
(* resolves checksums from manifests, downloads the third-party tools,    *)
(* binds kubectl to kuberlr and unpacks the dashboard bundle.             *)
(*                                                                         *)
(* Strings are TLA+ strings; the JavaScript string functions the code     *)
(* uses (startsWith, includes, split) are operators over them.  Every      *)
(* awaited call is a point where the environment chooses the outcome.     *)
(***************************************************************************)
EXTENDS Integers, Sequences, FiniteSets, TLC

VARIABLES
    rawPlatform,   \* downloadDependencies(rawPlatform, ...): 'wsl' | 'linux' | 'darwin' | 'win32'
    m1,            \* process.env.M1 is set
    hostOS,        \* os.platform() of the machine running the script
    homeEnv,       \* os.homedir(), the home variables of process.env, the accessible paths
    csName,        \* the name a checksum is being resolved for
    csLines,       \* the lines of the manifest file the server holds
    csText,        \* what getResource returns for it: the text, or NetError
    csPc,          \* position of the checksum-then-download sequence
    csOut,         \* what the checksum resolution returned or threw
    csFetch,       \* the downloads started by that sequence
    tool,          \* the top-level download function that is running
    pc,            \* its position: the await it is suspended at, or how it settled
    fs,            \* the file system: path -> entry, for the paths the script touches
    calls,         \* the download calls issued so far, with their options
    placed,        \* the paths written so far, with the task that wrote them
    ops,           \* the file-system calls bindKubectlToKuberlr made on binKubectlPath
    helpers,       \* the promises inside downloadDockerProvidedCredHelpers
    extract,       \* how the tar of the dashboard bundle ended
    kubectlSHA,    \* downloadKuberlrAndKubectl's local kubectlSHA
    prior,         \* what was at binKubectlPath when the script started
    status,        \* the ten promises given to Promise.all: task -> state
    result,        \* the promise downloadDependencies returns
    runs,          \* how many times each task function was called
    lateWrite,     \* a task wrote its files after the failure was reported
    svc,           \* moproxy: the state OpenRC holds for the service
    chain,         \* moproxy: copies of the redirect rule in each chain of the nat table
    mpc,           \* moproxy: where the running command of the script is
    mcmd,          \* moproxy: the command that is running, or ran last
    mexit,         \* moproxy: exit status of the last command
    menables,      \* moproxy: enable runs completed since the rules were last removed
    mforeign,      \* moproxy: another writer appended a copy since they were last removed
    mdel,          \* moproxy: rules deleted by the running or last disable
    wpc,           \* wait_for_extension_manager: where it is, or how it ended
    count,         \* wait_for_extension_manager: local count
    rdctlStatus,   \* $status after run --separate-stderr rdctl api /extensions
    rdctlMessage,  \* .message of the $output of that run
    message,       \* wait_for_extension_manager: local message
    ncalls,        \* how many times rdctl api /extensions was run
    nsleeps,       \* how many times sleep 10 was run
    args,          \* launch_the_application: "$@"
    argi,          \* launch_the_application: the position of the for loop in args
    api_args       \* launch_the_application: local api_args

csVars == <<csName, csLines, csText, csPc, csOut, csFetch>>
ctxVars == <<rawPlatform, m1, hostOS, homeEnv>>
toolVars == <<tool, pc, fs, calls, placed, ops, helpers, extract, kubectlSHA, prior>>
depVars == <<status, result, runs, lateWrite>>
moVars == <<svc, chain, mpc, mcmd, mexit, menables, mforeign, mdel>>
waitVars == <<wpc, count, rdctlStatus, rdctlMessage, message, ncalls, nsleeps>>
launchVars == <<args, argi, api_args>>
shellVars == <<moVars, waitVars, launchVars>>
vars == <<rawPlatform, m1, hostOS, homeEnv, csName, csLines, csText, csPc, csOut, csFetch,
          tool, pc, fs, calls, placed, ops, helpers, extract, kubectlSHA, prior,
          status, result, runs, lateWrite,
          svc, chain, mpc, mcmd, mexit, menables, mforeign, mdel,
          wpc, count, rdctlStatus, rdctlMessage, message, ncalls, nsleeps,
          args, argi, api_args>>

\* ------------------------------------------------------------- bounds
MaxLines == 3
\* how many of the ten tasks the environment lets fail in one run
MaxFaults == 1

\* ------------------------------------------------------------ strings
StartsWith(s, p) == Len(s) >= Len(p) /\ SubSeq(s, 1, Len(p)) = p

EndsWith(s, p) == Len(s) >= Len(p) /\ SubSeq(s, Len(s) - Len(p) + 1, Len(s)) = p

\* String.prototype.includes
Includes(s, sub) ==
    \E i \in 1..(Len(s) - Len(sub) + 1) : SubSeq(s, i, i + Len(sub) - 1) = sub

CharAt(s, i) == SubSeq(s, i, i)

\* the characters /\s/ matches, as far as the manifests use them
IsSpace(c) == c \in {" ", "\t"}

\* text.split(/\r?\n/): the text between the line feeds, a carriage return
\* right before a line feed being part of the separator
SplitLines(text) ==
    LET feeds == {i \in 1..Len(text) : CharAt(text, i) = "\n"}
        n == Cardinality(feeds)
        feed(k) == CHOOSE i \in feeds : Cardinality({j \in feeds : j < i}) = k - 1
        first(k) == IF k = 1 THEN 1 ELSE feed(k - 1) + 1
        last(k) == IF k = n + 1 THEN Len(text)
                   ELSE IF feed(k) - 1 >= first(k) /\ CharAt(text, feed(k) - 1) = "\r"
                        THEN feed(k) - 2
                        ELSE feed(k) - 1
    IN  [k \in 1..(n + 1) |-> SubSeq(text, first(k), last(k))]

\* a slip in the field index: the last field of the line, the file name
FirstField_LastField(line) ==
    LET spaces == {i \in 1..Len(line) : IsSpace(CharAt(line, i))}
        start == IF spaces = {} THEN 1
                 ELSE 1 + CHOOSE i \in spaces : \A j \in spaces : i >= j
    IN  SubSeq(line, start, Len(line))

\* line.split(/\s+/, 1)[0] and line.split(/\s+/)[0]: the text before the first
\* run of white space (the empty string when the line starts with white space)
FirstField(line) ==
    LET spaces == {i \in 1..Len(line) : IsSpace(CharAt(line, i))}
        stop == IF spaces = {} THEN Len(line) + 1
                ELSE CHOOSE i \in spaces : \A j \in spaces : i <= j
    IN  SubSeq(line, 1, stop - 1)

\* Array.prototype.filter, keeping the order
RECURSIVE FilterIncludes(_, _)
FilterIncludes(lines, name) ==
    IF lines = <<>> THEN <<>>
    ELSE (IF Includes(Head(lines), name) THEN <<Head(lines)>> ELSE <<>>)
         \o FilterIncludes(Tail(lines), name)

\* ------------------------------------------------------------ context
Platforms == {"linux", "darwin", "win32"}
DependencyPlatforms == {"wsl"} \cup Platforms

\* downloadDependencies: const platform = rawPlatform === 'wsl' ? 'linux' : rawPlatform
PlatformOf(raw) == IF raw = "wsl" THEN "linux" ELSE raw

getKubePlatform(platform) ==
    CASE platform = "darwin" -> "darwin"
      [] platform = "linux"  -> "linux"
      [] platform = "win32"  -> "windows"

platform == PlatformOf(rawPlatform)
kubePlatform == getKubePlatform(platform)

\* the suffix forgotten
exeName_NoSuffix(name) == name

exeName(name) == name \o (IF StartsWith(platform, "win") THEN ".exe" ELSE "")

\* ----------------------------------------------------------- checksum
NetError == [ok |-> FALSE]
Text(t) == [ok |-> TRUE, text |-> t]

Returned(v) == [ok |-> TRUE, value |-> v]
Thrown(msg) == [ok |-> FALSE, error |-> msg]

\* a lenient lookup: the first of several matching lines is taken
findChecksum_FirstOfMany(res, executableName) ==
    IF ~res.ok THEN Thrown(<<"getResource failed">>)
    ELSE LET desiredChecksums == FilterIncludes(SplitLines(res.text), executableName)
         IN  IF Len(desiredChecksums) < 1
             THEN Thrown(<<"Couldn't find a matching SHA for", executableName>>)
             ELSE Returned(FirstField(desiredChecksums[1]))

\* findChecksum(checksumURL, executableName); res is what getResource gives
findChecksum(res, executableName) ==
    IF ~res.ok THEN Thrown(<<"getResource failed">>)
    ELSE LET desiredChecksums == FilterIncludes(SplitLines(res.text), executableName)
         IN  IF Len(desiredChecksums) < 1
             THEN Thrown(<<"Couldn't find a matching SHA for", executableName>>)
             ELSE IF Len(desiredChecksums) = 1
             THEN Returned(FirstField(desiredChecksums[1]))
             ELSE Thrown(<<"Matched", Len(desiredChecksums), "hits, not exactly 1, for", executableName>>)

kuberlrVersion == "0.4.2"
kuberlrPlatformDir(arch) == "kuberlr_" \o kuberlrVersion \o "_" \o kubePlatform \o "_" \o arch

\* downloadKuberlr, lines 88-101: the inline filter and the expected checksum
kuberlrChecksum(res, arch) ==
    IF ~res.ok THEN Thrown(<<"getResource failed">>)
    ELSE LET checksums == FilterIncludes(SplitLines(res.text), kuberlrPlatformDir(arch))
         IN  CASE Len(checksums) = 0 ->
                    Thrown(<<"Couldn't find a matching SHA for", kuberlrPlatformDir(arch)>>)
               [] Len(checksums) = 1 -> Returned(FirstField(checksums[1]))
               [] OTHER ->
                    Thrown(<<"Matched", Len(checksums), "hits, not exactly 1, for platform", kubePlatform>>)

\* download(url, destPath, options) of ../lib/download: the bytes are fetched,
\* and when options.expectedChecksum is given their digest is compared with it
NoChecksum == "(none)"

download(served, expectedChecksum) ==
    IF ~served.ok THEN Thrown(<<"download failed">>)
    ELSE IF expectedChecksum # NoChecksum /\ served.digest # expectedChecksum
    THEN Thrown(<<"checksum mismatch", served.digest, expectedChecksum>>)
    ELSE Returned(served.digest)

\* ------------------------------------------------- names and destinations
\* path.join(a, b)
PathJoin(a, b) == a \o "/" \o b

\* process.env.M1 ? 'arm64' : 'amd64'
arch == IF m1 THEN "arm64" ELSE "amd64"

\* downloadDependencies: resourcesDir, binDir, internalDir (process.cwd() is ".")
resourcesRoot == "resources"
resourcesDir == PathJoin(resourcesRoot, platform)
binDir == PathJoin(resourcesDir, "bin")
internalDir == PathJoin(resourcesDir, "internal")

onWindowsTarget == StartsWith(platform, "win")

\* downloadKuberlr
kuberlrArchiveName ==
    kuberlrPlatformDir("amd64") \o (IF StartsWith(kubePlatform, "win") THEN ".zip" ELSE ".tar.gz")
kuberlrDownloadFunc == IF onWindowsTarget THEN "downloadZip" ELSE "downloadTarGZ"
kuberlrPath == PathJoin(binDir, exeName("kuberlr"))

\* downloadKuberlrAndKubectl
binKubectlPath == PathJoin(binDir, exeName("kubectl"))
StripV(version) == IF StartsWith(version, "v") THEN SubSeq(version, 2, Len(version)) ELSE version
kuberlrDir(homeDir) == PathJoin(PathJoin(homeDir, ".kuberlr"), kubePlatform \o "-" \o arch)
managedKubectlPath(homeDir, kubeVersion) ==
    PathJoin(kuberlrDir(homeDir), exeName("kubectl" \o StripV(kubeVersion)))

\* downloadHelm; depVersions.helm is a caller's pin
helmVersion == "3.9.1"
helmPlan ==
    [sum |-> "getResource", sumName |-> "",
     file |-> "helm-v" \o helmVersion \o "-" \o kubePlatform \o "-" \o arch \o ".tar.gz",
     fn |-> "downloadTarGZ", dest |-> PathJoin(binDir, exeName("helm"))]

\* downloadDockerCLI
dockerPlatform == IF rawPlatform = "wsl" THEN "wsl" ELSE kubePlatform
dockerExecutable == exeName("docker-" \o dockerPlatform \o "-" \o arch)
dockerCLIPlan ==
    [sum |-> "findChecksum", sumName |-> dockerExecutable, file |-> dockerExecutable,
     fn |-> "download", dest |-> PathJoin(binDir, exeName("docker"))]

\* downloadDockerBuildx
dockerBuildxExecutable == exeName("buildx-v0.8.2." \o kubePlatform \o "-" \o arch)
dockerBuildxPlan ==
    [sum |-> IF kubePlatform # "darwin" THEN "findChecksum" ELSE "none",
     sumName |-> dockerBuildxExecutable, file |-> dockerBuildxExecutable,
     fn |-> "download", dest |-> PathJoin(binDir, exeName("docker-buildx"))]

\* downloadDockerCompose
dockerComposeCPU == IF m1 THEN "aarch64" ELSE "x86_64"
dockerComposeExecutable == exeName("docker-compose-" \o kubePlatform \o "-" \o dockerComposeCPU)
dockerComposePlan ==
    [sum |-> "findChecksum", sumName |-> dockerComposeExecutable, file |-> dockerComposeExecutable,
     fn |-> "download", dest |-> PathJoin(binDir, exeName("docker-compose"))]

\* downloadTrivy: always the Linux build, placed in internalDir as 'trivy'
trivyOS == IF m1 THEN "Linux-ARM64" ELSE "Linux-64bit"
trivyBasename == "trivy_" \o StripV("v0.30.0") \o "_" \o trivyOS
trivyPlan ==
    [sum |-> "findChecksum", sumName |-> trivyBasename \o ".tar.gz",
     file |-> trivyBasename \o ".tar.gz",
     fn |-> "downloadTarGZ", dest |-> PathJoin(internalDir, "trivy")]

\* downloadSteve
steveCPU == IF m1 THEN "arm64" ELSE "amd64"
steveExecutable == "steve-" \o kubePlatform \o "-" \o steveCPU
stevePlan ==
    [sum |-> "findChecksum", sumName |-> steveExecutable, file |-> steveExecutable \o ".tar.gz",
     fn |-> "downloadTarGZ", dest |-> PathJoin(internalDir, exeName("steve"))]

\* the ECR helper placed under the name of one of docker's own helpers
ecrBinName_Pass ==
    IF onWindowsTarget THEN "docker-credential-pass" \o ".exe" ELSE "docker-credential-pass"

\* downloadECRCredHelper: download(sourceUrl, destPath), no options
ecrBinName ==
    IF onWindowsTarget THEN "docker-credential-ecr-login" \o ".exe" ELSE "docker-credential-ecr-login"
ecrPlan ==
    [sum |-> "none", sumName |-> "", file |-> ecrBinName,
     fn |-> "download", dest |-> PathJoin(binDir, ecrBinName)]

\* downloadDockerProvidedCredHelpers: downloadFunc(sourceUrl, destPath), no options
credHelperNames ==
    CASE platform = "linux"  -> <<"docker-credential-secretservice", "docker-credential-pass">>
      [] platform = "darwin" -> <<"docker-credential-osxkeychain">>
      [] platform = "win32"  -> <<"docker-credential-wincred">>
credExtension == IF onWindowsTarget THEN "zip" ELSE "tar.gz"
credDownloadFunc == IF onWindowsTarget THEN "downloadZip" ELSE "downloadTarGZ"
credBinName(baseName) == IF onWindowsTarget THEN baseName \o ".exe" ELSE baseName
credPlan(baseName) ==
    [sum |-> "none", sumName |-> "",
     file |-> baseName \o "-v0.6.4-" \o arch \o "." \o credExtension,
     fn |-> credDownloadFunc, dest |-> PathJoin(binDir, credBinName(baseName))]

\* downloadRancherDashboard
rancherDashboardExecutable == "rancher-dashboard-desktop-embed"
rancherDashboardPath == PathJoin(resourcesRoot, "rancher-dashboard.tgz")
rancherDashboardDir == PathJoin(resourcesRoot, "rancher-dashboard")

\* the functions that resolve at most one checksum and make one download
SimpleTools == {"helm", "dockerCLI", "dockerBuildx", "dockerCompose", "trivy", "steve", "ecrCredHelper"}

Plan(t) ==
    CASE t = "helm"          -> helmPlan
      [] t = "dockerCLI"     -> dockerCLIPlan
      [] t = "dockerBuildx"  -> dockerBuildxPlan
      [] t = "dockerCompose" -> dockerComposePlan
      [] t = "trivy"         -> trivyPlan
      [] t = "steve"         -> stevePlan
      [] t = "ecrCredHelper" -> ecrPlan

\* the ten promises downloadDependencies hands to Promise.all, in order
Tasks == <<"kuberlrAndKubectl", "helm", "dockerCLI", "dockerBuildx", "dockerCompose",
           "trivy", "steve", "rancherDashboard", "credHelpers", "ecrCredHelper">>
TaskSet == {Tasks[i] : i \in 1..Len(Tasks)}

\* ---------------------------------------------- manifests (the inputs)
Digests == {"abc123", "0a1b2c"}
FileNames == {"foo-linux-amd64.tar.gz", "foo-linux-arm64.tar.gz",
              "kuberlr_0.4.2_linux_amd64.tar.gz"}
Separators == {"  "}
WellFormedLines == {d \o sep \o f : d \in Digests, sep \in Separators, f \in FileNames}
\* a blank line, a line with no digest, a line that is only the file name
MalformedLines == {"", "  foo-linux-amd64.tar.gz", "foo-linux-amd64.tar.gz"}
Lines == WellFormedLines \cup MalformedLines
NewLines == {"\n", "\r\n"}

RECURSIVE Join(_, _)
Join(ls, nl) ==
    IF ls = <<>> THEN ""
    ELSE IF Len(ls) = 1 THEN ls[1]
    ELSE ls[1] \o nl \o Join(Tail(ls), nl)

Manifests == UNION {[1..n -> Lines] : n \in 0..MaxLines}

\* the files the release servers may serve for a download
Served == {NetError} \cup {[ok |-> TRUE, digest |-> d] : d \in Digests}

\* ------------------------------------------------------- file system
File(data) == [kind |-> "file", data |-> data]
Dir(data) == [kind |-> "dir", data |-> data]
Link(target) == [kind |-> "link", target |-> target]
Absent == [kind |-> "absent"]

Exists(f, path) == path \in DOMAIN f
Put(f, path, entry) == [q \in DOMAIN f \cup {path} |-> IF q = path THEN entry ELSE f[q]]
Remove(f, path) == [q \in DOMAIN f \ {path} |-> f[q]]

\* fs.mkdirSync(binDir), fs.mkdirSync(internalDir) of downloadDependencies
BaseFs == (binDir :> Dir("")) @@ (internalDir :> Dir(""))

\* downloadTarGZ / downloadZip of ../lib/download: download, then extract
downloadArchive(served, expectedChecksum, extractOk) ==
    IF ~download(served, expectedChecksum).ok THEN download(served, expectedChecksum)
    ELSE IF ~extractOk THEN Thrown(<<"extraction failed">>)
    ELSE Returned(served.digest)

Fetch(fn, served, expectedChecksum, extractOk) ==
    IF fn = "download" THEN download(served, expectedChecksum)
    ELSE downloadArchive(served, expectedChecksum, extractOk)

\* what a checksum URL may serve for a file: nothing, an empty manifest, the
\* line of the file, two lines that both name it
SumResources(file) ==
    {NetError, Text(""),
     Text("abc123  " \o file \o "\n"),
     Text("abc123  " \o file \o "\n" \o "0a1b2c  " \o file \o ".sig\n")}

\* ----------------------------------------------------------- findHome
\* the process environment findHome reads, and the paths fs.promises.access accepts
HomeEnvs ==
    [osHomeDir : {"", "/home/u"}, HOME : {"", "/home/u", "/srv/u"},
     USERPROFILE : {"", "C:/Users/u"}, HOMEDRIVE : {"", "C:"}, HOMEPATH : {"", "Users/u"},
     accessible : SUBSET {"/home/u", "/srv/u", "C:/Users/u"}]

\* a machine whose os.homedir() is there
HomeOk ==
    [osHomeDir |-> "/home/u", HOME |-> "/home/u", USERPROFILE |-> "", HOMEDRIVE |-> "",
     HOMEPATH |-> "", accessible |-> {"/home/u"}]

\* the Windows variables tried on every platform
findHome_WindowsVarsAlways(onWindows, env) ==
    LET tryAccess(path) == path \in env.accessible
        homePath == PathJoin(env.HOMEDRIVE, env.HOMEPATH)
    IN  IF env.osHomeDir # "" /\ tryAccess(env.osHomeDir) THEN Returned(env.osHomeDir)
        ELSE IF env.HOME # "" /\ tryAccess(env.HOME) THEN Returned(env.HOME)
        ELSE IF env.USERPROFILE # "" /\ tryAccess(env.USERPROFILE)
        THEN Returned(env.USERPROFILE)
        ELSE IF env.HOMEDRIVE # "" /\ env.HOMEPATH # "" /\ tryAccess(homePath)
        THEN Returned(homePath)
        ELSE Thrown(<<"Failed to find home directory">>)

findHome(onWindows, env) ==
    LET tryAccess(path) == path \in env.accessible
        homePath == PathJoin(env.HOMEDRIVE, env.HOMEPATH)
    IN  IF env.osHomeDir # "" /\ tryAccess(env.osHomeDir) THEN Returned(env.osHomeDir)
        ELSE IF env.HOME # "" /\ tryAccess(env.HOME) THEN Returned(env.HOME)
        ELSE IF onWindows /\ env.USERPROFILE # "" /\ tryAccess(env.USERPROFILE)
        THEN Returned(env.USERPROFILE)
        ELSE IF onWindows /\ env.HOMEDRIVE # "" /\ env.HOMEPATH # "" /\ tryAccess(homePath)
        THEN Returned(homePath)
        ELSE Thrown(<<"Failed to find home directory">>)

\* the service script when the model is of another program
MoIdle ==
    /\ svc = "off" /\ chain = <<>> /\ mpc = "off" /\ mcmd = "none" /\ mexit = 0
    /\ menables = 0 /\ mforeign = FALSE /\ mdel = 0

\* the test helpers when the model is of another program
WaitIdle ==
    /\ wpc = "off" /\ count = 0 /\ rdctlStatus = 0 /\ rdctlMessage = "" /\ message = ""
    /\ ncalls = 0 /\ nsleeps = 0

LaunchIdle == args = <<>> /\ argi = 0 /\ api_args = <<>>

ShellIdle == MoIdle /\ WaitIdle /\ LaunchIdle

\* the state of the tool functions when none is running
ToolsIdle ==
    /\ tool = "none" /\ pc = "off" /\ fs = <<>> /\ calls = {} /\ placed = {}
    /\ ops = <<>> /\ helpers = <<>> /\ extract = "none"
    /\ kubectlSHA = "" /\ prior = Absent

DepsIdle == status = <<>> /\ result = "off" /\ runs = <<>> /\ lateWrite = FALSE

ChecksumIdle ==
    /\ csName = "" /\ csLines = <<>> /\ csText = NetError /\ csPc = "off"
    /\ csOut = [ok |-> FALSE, error |-> <<>>] /\ csFetch = {}

\* --------------------------------- resolving a checksum, then downloading
\* const sha = await findChecksum(url, name); await download(url, path, { expectedChecksum: sha })
\* (downloadDockerCLI, downloadDockerCompose, downloadTrivy, downloadSteve)
FindChecksumThenDownload ==
    /\ csPc = "findChecksum"
    /\ csOut' = findChecksum(csText, csName)
    /\ IF csOut'.ok
       THEN /\ csPc' = "download"
            /\ csFetch' = csFetch \cup {[name |-> csName, expectedChecksum |-> csOut'.value]}
       ELSE /\ csPc' = "threw"
            /\ UNCHANGED csFetch
    /\ UNCHANGED <<ctxVars, shellVars, csName, csLines, csText, toolVars, depVars>>

\* downloadKuberlr up to the call of downloadFunc
DownloadKuberlrResolve ==
    /\ csPc = "downloadKuberlr"
    /\ csOut' = kuberlrChecksum(csText, "amd64")
    /\ IF csOut'.ok
       THEN /\ csPc' = "download"
            /\ csFetch' = csFetch \cup {[name |-> csName, expectedChecksum |-> csOut'.value]}
       ELSE /\ csPc' = "threw"
            /\ UNCHANGED csFetch
    /\ UNCHANGED <<ctxVars, shellVars, csName, csLines, csText, toolVars, depVars>>

\* the awaited download settles
DownloadSettles ==
    /\ csPc = "download"
    /\ \E served \in Served, f \in csFetch :
          csPc' = IF download(served, f.expectedChecksum).ok THEN "placed" ELSE "failed"
    /\ UNCHANGED <<ctxVars, shellVars, csName, csLines, csText, csOut, csFetch, toolVars, depVars>>

ChecksumInit ==
    /\ m1 = FALSE
    /\ hostOS = "linux"
    /\ homeEnv = HomeOk
    /\ \/ /\ csPc = "findChecksum"
          /\ rawPlatform = "linux"
          /\ csName \in {"foo-linux-amd64.tar.gz", "foo-linux-arm64.tar.gz"}
       \/ /\ csPc = "downloadKuberlr"
          /\ rawPlatform \in {"linux", "darwin"}
          /\ csName = kuberlrPlatformDir("amd64")
    /\ csLines \in Manifests
    /\ csText \in {NetError} \cup {Text(Join(csLines, nl)) : nl \in NewLines}
    /\ csOut = [ok |-> FALSE, error |-> <<>>]
    /\ csFetch = {}
    /\ ToolsIdle
    /\ DepsIdle
    /\ ShellIdle

ChecksumNext == FindChecksumThenDownload \/ DownloadKuberlrResolve \/ DownloadSettles

SpecChecksum == ChecksumInit /\ [][ChecksumNext]_vars

\* ------------------------------------------- the top-level functions, alone
CallOf(t, plan, expected) ==
    [task |-> t, file |-> plan.file, fn |-> plan.fn, dest |-> plan.dest,
     expectedChecksum |-> expected]

Wrote(path) == [path |-> path, by |-> tool]

\* what the .sha256sum file next to an archive may serve
SidecarResources(file) == {NetError, Text("abc123  " \o file \o "\n")}

\* the expected checksum of a simple tool: findChecksum(url, name), or for helm
\* (await getResource(url)).split(/\s+/, 1)[0]
ResolveSum(plan, res) ==
    IF plan.sum = "findChecksum" THEN findChecksum(res, plan.sumName)
    ELSE IF ~res.ok THEN Thrown(<<"getResource failed">>)
    ELSE Returned(FirstField(res.text))

\* the synchronous start of a simple tool: up to its first await
CallSimple ==
    /\ pc = "call" /\ tool \in SimpleTools
    /\ IF Plan(tool).sum = "none"
       THEN /\ calls' = calls \cup {CallOf(tool, Plan(tool), NoChecksum)}
            /\ pc' = "download"
       ELSE /\ pc' = "checksum"
            /\ UNCHANGED calls
    /\ UNCHANGED <<ctxVars, shellVars, csVars, tool, fs, placed, ops, helpers, extract, kubectlSHA, prior, depVars>>

\* the awaited checksum arrives; the download is called with it, or the function throws
ChecksumArrives ==
    /\ pc = "checksum" /\ tool \in SimpleTools
    /\ \E res \in (IF Plan(tool).sum = "findChecksum"
                    THEN SumResources(Plan(tool).file)
                    ELSE SidecarResources(Plan(tool).file)) :
          LET sum == ResolveSum(Plan(tool), res)
          IN  IF sum.ok
              THEN /\ calls' = calls \cup {CallOf(tool, Plan(tool), sum.value)}
                   /\ pc' = "download"
              ELSE /\ pc' = "rejected"
                   /\ UNCHANGED calls
    /\ UNCHANGED <<ctxVars, shellVars, csVars, tool, fs, placed, ops, helpers, extract, kubectlSHA, prior, depVars>>

\* the awaited download settles: the file is in place, or the function throws
DownloadArrives ==
    /\ pc = "download" /\ tool \in SimpleTools
    /\ \E c \in calls, served \in Served, extractOk \in BOOLEAN :
          IF Fetch(c.fn, served, c.expectedChecksum, extractOk).ok
          THEN /\ fs' = Put(fs, c.dest, File(served.digest))
               /\ placed' = placed \cup {Wrote(c.dest)}
               /\ pc' = "fulfilled"
          ELSE /\ pc' = "rejected"
               /\ UNCHANGED <<fs, placed>>
    /\ UNCHANGED <<ctxVars, shellVars, csVars, tool, calls, ops, helpers, extract, kubectlSHA, prior, depVars>>

\* downloadDockerProvidedCredHelpers: every helper's download is called at
\* once, without options, and Promise.all(promises) is returned
CredHelperNameSet == {credHelperNames[i] : i \in 1..Len(credHelperNames)}

CallCredHelpers ==
    /\ pc = "call" /\ tool = "credHelpers"
    /\ calls' = calls \cup {CallOf(tool, credPlan(n), NoChecksum) : n \in CredHelperNameSet}
    /\ helpers' = [n \in CredHelperNameSet |-> "pending"]
    /\ pc' = "download"
    /\ UNCHANGED <<ctxVars, shellVars, csVars, tool, fs, placed, ops, extract, kubectlSHA, prior, depVars>>

\* Promise.all over the helper promises: rejected at the first rejection,
\* fulfilled when all are fulfilled
AllSettled(st) ==
    IF \E n \in DOMAIN st : st[n] = "rejected" THEN "rejected"
    ELSE IF \A n \in DOMAIN st : st[n] = "fulfilled" THEN "fulfilled"
    ELSE "download"

\* one helper's download settles; the others go on whatever Promise.all did
CredHelperArrives ==
    /\ tool = "credHelpers"
    /\ \E n \in DOMAIN helpers, served \in Served, extractOk \in BOOLEAN :
          /\ helpers[n] = "pending"
          /\ IF Fetch(credPlan(n).fn, served, NoChecksum, extractOk).ok
             THEN /\ fs' = Put(fs, credPlan(n).dest, File(served.digest))
                  /\ placed' = placed \cup {Wrote(credPlan(n).dest)}
                  /\ helpers' = [helpers EXCEPT ![n] = "fulfilled"]
             ELSE /\ helpers' = [helpers EXCEPT ![n] = "rejected"]
                  /\ UNCHANGED <<fs, placed>>
          /\ pc' = IF pc = "download" THEN AllSettled(helpers') ELSE pc
    /\ UNCHANGED <<ctxVars, shellVars, csVars, tool, calls, ops, extract, kubectlSHA, prior, depVars>>

\* ----------------------------------------------- downloadRancherDashboard
\* One continuation of downloadRancherDashboard: from the await it is suspended
\* at (d.pc) to the next await or to the end, the environment answering with e.
dashboardPlan ==
    [file |-> rancherDashboardExecutable \o ".tar.gz", fn |-> "download",
     dest |-> rancherDashboardPath]

DashEnvs ==
    [sum : SumResources(rancherDashboardExecutable \o ".tar.gz"), served : Served,
     mkdirOk : BOOLEAN, systemRoot : BOOLEAN, tarOk : BOOLEAN, rmOk : BOOLEAN]

DashStep(d, e) ==
    CASE d.pc = "call" ->
           \* findChecksum is awaited first (line 287)
           [d EXCEPT !.pc = "checksum"]
      [] d.pc = "checksum" ->
           LET sum == findChecksum(e.sum, rancherDashboardExecutable)
           IN  IF ~sum.ok THEN [d EXCEPT !.pc = "rejected"]
               ELSE IF Exists(d.fs, rancherDashboardDir)
               THEN [d EXCEPT !.pc = "fulfilled"]
               ELSE [d EXCEPT !.pc = "download",
                              !.calls = @ \cup {CallOf("rancherDashboard", dashboardPlan, sum.value)}]
      [] d.pc = "download" ->
           LET c == CHOOSE c \in d.calls : c.task = "rancherDashboard"
           IN  IF ~download(e.served, c.expectedChecksum).ok
               THEN [d EXCEPT !.pc = "rejected"]
               ELSE [d EXCEPT !.pc = "mkdir",
                              !.fs = Put(@, rancherDashboardPath, File(e.served.digest)),
                              !.placed = @ \cup {[path |-> rancherDashboardPath, by |-> "rancherDashboard"]}]
      [] d.pc = "mkdir" ->
           IF ~e.mkdirOk THEN [d EXCEPT !.pc = "rejected"]
           ELSE LET made == [d EXCEPT !.fs = Put(@, rancherDashboardDir, Dir("")),
                                      !.placed = @ \cup {[path |-> rancherDashboardDir, by |-> "rancherDashboard"]}]
                    \* spawnSync returns; its status and error are not looked at
                    untarred == IF e.tarOk
                                THEN [made EXCEPT !.fs = Put(@, rancherDashboardDir,
                                                             Dir(made.fs[rancherDashboardPath].data)),
                                                  !.extract = "ok"]
                                ELSE [made EXCEPT !.extract = "failed"]
                IN  IF StartsWith(hostOS, "win") /\ ~e.systemRoot
                    THEN [made EXCEPT !.pc = "rejected"]
                    ELSE IF ~e.rmOk THEN [untarred EXCEPT !.pc = "rejected"]
                    ELSE [untarred EXCEPT !.pc = "fulfilled",
                                          !.fs = Remove(@, rancherDashboardPath)]

Settled(p) == p \in {"fulfilled", "rejected"}

\* the function run to its end against one environment
RECURSIVE RunDashboard(_, _)
RunDashboard(d, e) == IF Settled(d.pc) THEN d ELSE RunDashboard(DashStep(d, e), e)

DashLocal == [pc |-> pc, fs |-> fs, calls |-> calls, placed |-> placed, extract |-> extract]

DashApply(d) ==
    /\ pc' = d.pc /\ fs' = d.fs /\ calls' = d.calls /\ placed' = d.placed
    /\ extract' = d.extract
    /\ UNCHANGED <<ctxVars, shellVars, csVars, tool, ops, helpers, kubectlSHA, prior, depVars>>

DashboardCall ==
    /\ tool = "rancherDashboard" /\ pc = "call"
    /\ \E e \in DashEnvs : DashApply(DashStep(DashLocal, e))

DashboardChecksumArrives ==
    /\ tool = "rancherDashboard" /\ pc = "checksum"
    /\ \E e \in DashEnvs : DashApply(DashStep(DashLocal, e))

DashboardDownloadArrives ==
    /\ tool = "rancherDashboard" /\ pc = "download"
    /\ \E e \in DashEnvs : DashApply(DashStep(DashLocal, e))

DashboardMkdirDone ==
    /\ tool = "rancherDashboard" /\ pc = "mkdir"
    /\ \E e \in DashEnvs : DashApply(DashStep(DashLocal, e))

\* ------------------------------------------- downloadKuberlrAndKubectl
\* (await getResource('https://dl.k8s.io/release/stable.txt')).trim()
kubeVersion == "v1.24.3"

KuberlrVars == <<ctxVars, shellVars, csVars, tool, helpers, extract, prior, depVars>>

KuberlrCall ==
    /\ tool = "kuberlrAndKubectl" /\ pc = "call"
    /\ pc' = "kuberlr:checksums"
    /\ UNCHANGED <<KuberlrVars, fs, calls, placed, ops, kubectlSHA>>

\* downloadKuberlr: checksums.txt arrives, downloadFunc is called or it throws
KuberlrChecksumsArrive ==
    /\ tool = "kuberlrAndKubectl" /\ pc = "kuberlr:checksums"
    /\ \E res \in SumResources(kuberlrArchiveName) :
          LET sum == kuberlrChecksum(res, "amd64")
          IN  IF sum.ok
              THEN /\ calls' = calls \cup
                        {[task |-> tool, file |-> kuberlrArchiveName, fn |-> kuberlrDownloadFunc,
                          dest |-> kuberlrPath, expectedChecksum |-> sum.value]}
                   /\ pc' = "kuberlr:download"
              ELSE /\ pc' = "rejected"
                   /\ UNCHANGED calls
    /\ UNCHANGED <<KuberlrVars, fs, placed, ops, kubectlSHA>>

\* the kuberlr archive is in place; bindKubectlToKuberlr runs to its first await
KuberlrDownloadArrives ==
    /\ tool = "kuberlrAndKubectl" /\ pc = "kuberlr:download"
    /\ \E c \in calls, served \in Served, extractOk \in BOOLEAN :
          IF Fetch(c.fn, served, c.expectedChecksum, extractOk).ok
          THEN /\ fs' = Put(fs, kuberlrPath, File(served.digest))
               /\ placed' = placed \cup {Wrote(kuberlrPath)}
               /\ pc' = IF StartsWith(hostOS, "win") THEN "bind:copyFile" ELSE "bind:lstat"
          ELSE /\ pc' = "rejected"
               /\ UNCHANGED <<fs, placed>>
    /\ UNCHANGED <<KuberlrVars, calls, ops, kubectlSHA>>

\* where downloadKuberlrAndKubectl goes once bindKubectlToKuberlr has returned
AfterBind == IF platform = hostOS THEN "kubectl:stable" ELSE "fulfilled"

\* on a Windows host: fs.promises.copyFile(kuberlrPath, binKubectlPath)
BindCopyFile ==
    /\ tool = "kuberlrAndKubectl" /\ pc = "bind:copyFile"
    /\ \E ok \in BOOLEAN :
          IF ok /\ ~(Exists(fs, binKubectlPath) /\ fs[binKubectlPath].kind = "dir")
          THEN /\ fs' = Put(fs, binKubectlPath, fs[kuberlrPath])
               /\ placed' = placed \cup {Wrote(binKubectlPath)}
               /\ pc' = AfterBind
          ELSE /\ pc' = "rejected"
               /\ UNCHANGED <<fs, placed>>
    /\ ops' = Append(ops, "copyFile")
    /\ UNCHANGED <<KuberlrVars, calls, kubectlSHA>>

\* lstat: a throw (nothing there, or no access) goes to the catch, then symlink
BindLstat ==
    /\ tool = "kuberlrAndKubectl" /\ pc = "bind:lstat"
    /\ \E ok \in BOOLEAN :
          pc' = IF ~ok \/ ~Exists(fs, binKubectlPath) THEN "bind:symlink"
                ELSE IF fs[binKubectlPath].kind = "link" THEN "bind:readlink"
                ELSE "bind:rm"
    /\ UNCHANGED <<KuberlrVars, fs, calls, placed, ops, kubectlSHA>>

\* the target of the link is not compared
BindReadlink_AnyTarget ==
    /\ tool = "kuberlrAndKubectl" /\ pc = "bind:readlink"
    /\ \E ok \in BOOLEAN : pc' = IF ~ok THEN "bind:symlink" ELSE AfterBind
    /\ UNCHANGED <<KuberlrVars, fs, calls, placed, ops, kubectlSHA>>

BindReadlink ==
    /\ tool = "kuberlrAndKubectl" /\ pc = "bind:readlink"
    /\ \E ok \in BOOLEAN :
          pc' = IF ~ok THEN "bind:symlink"
                ELSE IF fs[binKubectlPath].target = "kuberlr" THEN AfterBind
                ELSE "bind:rm"
    /\ UNCHANGED <<KuberlrVars, fs, calls, placed, ops, kubectlSHA>>

\* fs.promises.rm(binKubectlPath), no options: a directory is refused
BindRm ==
    /\ tool = "kuberlrAndKubectl" /\ pc = "bind:rm"
    /\ \E ok \in BOOLEAN :
          fs' = IF ok /\ fs[binKubectlPath].kind # "dir"
                THEN Remove(fs, binKubectlPath)
                ELSE fs
    /\ ops' = Append(ops, "rm")
    /\ pc' = "bind:symlink"
    /\ UNCHANGED <<KuberlrVars, calls, placed, kubectlSHA>>

\* fs.promises.symlink('kuberlr', binKubectlPath): refused when something is there
BindSymlink ==
    /\ tool = "kuberlrAndKubectl" /\ pc = "bind:symlink"
    /\ \E ok \in BOOLEAN :
          IF ok /\ ~Exists(fs, binKubectlPath)
          THEN /\ fs' = Put(fs, binKubectlPath, Link("kuberlr"))
               /\ placed' = placed \cup {Wrote(binKubectlPath)}
               /\ pc' = AfterBind
          ELSE /\ pc' = "rejected"
               /\ UNCHANGED <<fs, placed>>
    /\ ops' = Append(ops, "symlink")
    /\ UNCHANGED <<KuberlrVars, calls, kubectlSHA>>

KubectlStableArrives ==
    /\ tool = "kuberlrAndKubectl" /\ pc = "kubectl:stable"
    /\ \E res \in {NetError, Text(kubeVersion \o "\n")} :
          pc' = IF res.ok THEN "kubectl:sha" ELSE "rejected"
    /\ UNCHANGED <<KuberlrVars, fs, calls, placed, ops, kubectlSHA>>

\* kubectlSHA is the text of the .sha256 file as it is; findHome is called
KubectlShaArrives ==
    /\ tool = "kuberlrAndKubectl" /\ pc = "kubectl:sha"
    /\ \E res \in {NetError} \cup {Text(d) : d \in Digests} :
          IF res.ok
          THEN /\ kubectlSHA' = res.text
               /\ pc' = "kubectl:findHome"
          ELSE /\ pc' = "rejected"
               /\ UNCHANGED kubectlSHA
    /\ UNCHANGED <<KuberlrVars, fs, calls, placed, ops>>

\* findHome settles; the managed kubectl's download is called or it throws
KubectlFindHome ==
    /\ tool = "kuberlrAndKubectl" /\ pc = "kubectl:findHome"
    /\ LET home == findHome(onWindowsTarget, homeEnv)
          IN  IF home.ok
              THEN /\ calls' = calls \cup
                        {[task |-> tool, file |-> exeName("kubectl"), fn |-> "download",
                          dest |-> managedKubectlPath(home.value, kubeVersion),
                          expectedChecksum |-> kubectlSHA]}
                   /\ pc' = "kubectl:download"
              ELSE /\ pc' = "rejected"
                   /\ UNCHANGED calls
    /\ UNCHANGED <<KuberlrVars, fs, placed, ops, kubectlSHA>>

KubectlDownloadArrives ==
    /\ tool = "kuberlrAndKubectl" /\ pc = "kubectl:download"
    /\ \E c \in calls, served \in Served :
          /\ c.file = exeName("kubectl")
          /\ IF download(served, c.expectedChecksum).ok
             THEN /\ fs' = Put(fs, c.dest, File(served.digest))
                  /\ placed' = placed \cup {Wrote(c.dest)}
                  /\ pc' = "fulfilled"
             ELSE /\ pc' = "rejected"
                  /\ UNCHANGED <<fs, placed>>
    /\ UNCHANGED <<KuberlrVars, calls, ops, kubectlSHA>>

\* ------------------------------------------ one function, any environment
PriorEntries == {Absent, File("old"), Dir(""), Link("kuberlr"), Link("kubectl.real")}

FetchInit ==
    /\ rawPlatform \in DependencyPlatforms
    /\ m1 \in BOOLEAN
    /\ hostOS \in Platforms
    /\ tool \in TaskSet
    /\ pc = "call"
    /\ prior \in (IF tool = "kuberlrAndKubectl" THEN PriorEntries ELSE {Absent})
    /\ homeEnv \in (IF tool = "kuberlrAndKubectl" /\ prior = Absent /\ ~m1
                    THEN HomeEnvs ELSE {HomeOk})
    /\ \E dash \in (IF tool = "rancherDashboard" THEN {Absent, Dir("abc123")} ELSE {Absent}) :
          fs = (IF prior = Absent THEN BaseFs ELSE Put(BaseFs, binKubectlPath, prior))
               @@ (IF dash = Absent THEN <<>> ELSE (rancherDashboardDir :> dash))
    /\ calls = {} /\ placed = {} /\ ops = <<>> /\ helpers = <<>>
    /\ extract = "none" /\ kubectlSHA = ""
    /\ ChecksumIdle
    /\ DepsIdle
    /\ ShellIdle

FetchNext ==
    \/ CallSimple \/ ChecksumArrives \/ DownloadArrives
    \/ CallCredHelpers \/ CredHelperArrives
    \/ DashboardCall \/ DashboardChecksumArrives \/ DashboardDownloadArrives
    \/ DashboardMkdirDone
    \/ KuberlrCall \/ KuberlrChecksumsArrive \/ KuberlrDownloadArrives
    \/ BindCopyFile \/ BindLstat \/ BindReadlink \/ BindRm \/ BindSymlink
    \/ KubectlStableArrives \/ KubectlShaArrives \/ KubectlFindHome
    \/ KubectlDownloadArrives

SpecFetch == FetchInit /\ [][FetchNext]_vars

\* --------------------------------------------------- downloadDependencies
\* The ten task functions are called in one synchronous stretch and their
\* promises handed to Promise.all.  A reaction to a settled promise runs before
\* any other I/O completes, so a task settling and Promise.all taking note of it
\* are one step.
HomeDir == "/home/u"

\* the paths a task writes when it runs to its end
Destinations(t) ==
    CASE t = "kuberlrAndKubectl" ->
           {kuberlrPath, binKubectlPath}
           \cup (IF platform = hostOS THEN {managedKubectlPath(HomeDir, kubeVersion)} ELSE {})
      [] t = "credHelpers" -> {credPlan(n).dest : n \in CredHelperNameSet}
      [] t = "rancherDashboard" -> {rancherDashboardPath, rancherDashboardDir}
      [] OTHER -> {Plan(t).dest}

\* Promise.all resolving as soon as one promise is fulfilled
PromiseAll_Any(was, st) ==
    IF was # "pending" THEN was
    ELSE IF \E t \in DOMAIN st : st[t] = "rejected" THEN "rejected"
    ELSE IF \E t \in DOMAIN st : st[t] = "fulfilled" THEN "resolved"
    ELSE "pending"

\* Promise.all waiting for every promise to settle before it rejects
PromiseAll_Settled(was, st) ==
    IF was # "pending" THEN was
    ELSE IF \E t \in DOMAIN st : st[t] = "pending" THEN "pending"
    ELSE IF \E t \in DOMAIN st : st[t] = "rejected" THEN "rejected"
    ELSE "resolved"

\* Promise.all: rejected at the first rejection, resolved when every promise is
\* fulfilled, and settled only once
PromiseAll(was, st) ==
    IF was # "pending" THEN was
    ELSE IF \E t \in DOMAIN st : st[t] = "rejected" THEN "rejected"
    ELSE IF \A t \in DOMAIN st : st[t] = "fulfilled" THEN "resolved"
    ELSE "pending"

\* downloadDependencies up to its await: the two mkdirSync, then the ten calls
StartAll ==
    /\ result = "idle"
    /\ \E mkdirOk \in BOOLEAN :
          IF mkdirOk
          THEN /\ status' = [t \in TaskSet |-> "pending"]
               /\ runs' = [t \in TaskSet |-> runs[t] + 1]
               /\ result' = "pending"
          ELSE /\ result' = "rejected"
               /\ UNCHANGED <<status, runs>>
    /\ UNCHANGED <<ctxVars, shellVars, csVars, toolVars, lateWrite>>

Faults == Cardinality({t \in DOMAIN status : status[t] = "rejected"})

\* the environments a whole run of downloadRancherDashboard is tried against:
\* everything succeeding, and each of its calls failing
DashAllOk ==
    [sum |-> Text("abc123  " \o rancherDashboardExecutable \o ".tar.gz\n"),
     served |-> [ok |-> TRUE, digest |-> "abc123"],
     mkdirOk |-> TRUE, systemRoot |-> TRUE, tarOk |-> TRUE, rmOk |-> TRUE]

DashRunEnvs ==
    {DashAllOk,
     [DashAllOk EXCEPT !.sum = NetError],
     [DashAllOk EXCEPT !.served = NetError],
     [DashAllOk EXCEPT !.served = [ok |-> TRUE, digest |-> "0a1b2c"]],
     [DashAllOk EXCEPT !.mkdirOk = FALSE],
     [DashAllOk EXCEPT !.systemRoot = FALSE],
     [DashAllOk EXCEPT !.tarOk = FALSE],
     [DashAllOk EXCEPT !.rmOk = FALSE],
     [DashAllOk EXCEPT !.tarOk = FALSE, !.rmOk = FALSE]}

\* a task other than the dashboard settles: all its files are in place and it
\* is fulfilled, or it is rejected
TaskSettles(t) ==
    /\ status[t] = "pending"
    /\ \E ok \in BOOLEAN :
          /\ ~ok => Faults < MaxFaults
          /\ status' = [status EXCEPT ![t] = IF ok THEN "fulfilled" ELSE "rejected"]
          /\ placed' = IF ok THEN placed \cup {[path |-> q, by |-> t] : q \in Destinations(t)}
                        ELSE placed
          /\ lateWrite' = (lateWrite \/ (ok /\ result = "rejected"))
    /\ result' = PromiseAll(result, status')
    /\ UNCHANGED <<ctxVars, shellVars, csVars, tool, pc, fs, calls, ops, helpers, extract, kubectlSHA,
                   prior, runs>>

\* downloadRancherDashboard settles, as its continuations make it
DashboardSettles ==
    /\ status["rancherDashboard"] = "pending"
    /\ \E e \in DashRunEnvs :
          LET d == RunDashboard([pc |-> "call", fs |-> fs, calls |-> {}, placed |-> {},
                                extract |-> "none"], e)
          IN  /\ d.pc = "rejected" => Faults < MaxFaults
              /\ status' = [status EXCEPT !["rancherDashboard"] = d.pc]
              /\ placed' = placed \cup d.placed
              /\ extract' = d.extract
              /\ fs' = d.fs
              /\ lateWrite' = (lateWrite \/ (d.placed # {} /\ result = "rejected"))
    /\ result' = PromiseAll(result, status')
    /\ UNCHANGED <<ctxVars, shellVars, csVars, tool, pc, calls, ops, helpers, kubectlSHA, prior, runs>>

\* the machine the script is run on for a target: one of the target's
\* platform, which for the wsl binaries is a Windows machine
HostsFor(raw) == IF raw = "wsl" THEN {"win32"} ELSE {PlatformOf(raw)}

DepsInit ==
    /\ rawPlatform \in DependencyPlatforms
    /\ m1 \in BOOLEAN
    /\ hostOS \in HostsFor(rawPlatform)
    /\ homeEnv = HomeOk
    /\ fs = BaseFs
    /\ status = [t \in TaskSet |-> "idle"]
    /\ runs = [t \in TaskSet |-> 0]
    /\ result = "idle"
    /\ lateWrite = FALSE
    /\ tool = "all" /\ pc = "off" /\ calls = {} /\ placed = {} /\ ops = <<>>
    /\ helpers = <<>> /\ extract = "none" /\ kubectlSHA = "" /\ prior = Absent
    /\ ChecksumIdle
    /\ ShellIdle

DepsNext ==
    \/ StartAll
    \/ \E t \in TaskSet \ {"rancherDashboard"} : TaskSettles(t)
    \/ DashboardSettles

SpecDeps == DepsInit /\ [][DepsNext]_vars

\* ------------------------------------------------ claims on the checksum
csResolved == csPc \notin {"findChecksum", "downloadKuberlr"}

\* the number of lines of the served manifest that contain the name
MatchCount == Cardinality({i \in 1..Len(csLines) : Includes(csLines[i], csName)})

\* C1: a checksum is resolved only when exactly one manifest line matches the
\* name; with no matching line or with several the resolution throws and no
\* download is started, and none is started before the resolution either.
C1_ChecksumOnlyFromSingleMatch ==
    /\ ~csResolved => csFetch = {}
    /\ csResolved =>
          /\ csOut.ok <=> (csText.ok /\ MatchCount = 1)
          /\ (~csText.ok \/ MatchCount # 1) => (csPc = "threw" /\ csFetch = {})
          /\ csFetch # {} => (csText.ok /\ MatchCount = 1)

C1_Witness_AmbiguousThrows ==
    /\ csPc = "threw" /\ csText.ok /\ MatchCount = 2 /\ csFetch = {}

C3_OnlyBuildxDarwinUnverified ==
    \A c \in calls :
        c.expectedChecksum = NoChecksum => (c.task = "dockerBuildx" /\ kubePlatform = "darwin")

DashboardDirExisted == tool = "rancherDashboard" /\ placed = {} /\ Exists(fs, rancherDashboardDir)

\* C7: when resources/rancher-dashboard exists, downloadRancherDashboard makes no
\* network request and returns successfully whatever the network gives.
C7_ExistingDirIsNoOp ==
    DashboardDirExisted => pc # "rejected"

ToolFiles == {w \in placed : w.by # "rancherDashboard"}

\* C9 as stated: exeName appends '.exe' exactly on win32, and every tool file
\* placed carries '.exe' exactly when the target platform is win32.
C9_ExeSuffixIffWin32 ==
    /\ \A n \in {"kubectl", "helm"} :
          exeName(n) = IF platform = "win32" THEN n \o ".exe" ELSE n
    /\ \A w \in ToolFiles : EndsWith(w.path, ".exe") <=> (platform = "win32")

\* C9, amended: the same for every tool file but trivy, which is the Linux
\* build on every platform and is placed as internalDir/trivy, without suffix.
C9_ExeSuffixIffWin32ExceptTrivy ==
    /\ \A n \in {"kubectl", "helm"} :
          exeName(n) = IF platform = "win32" THEN n \o ".exe" ELSE n
    /\ \A w \in ToolFiles :
          IF w.by = "trivy" THEN w.path = PathJoin(internalDir, "trivy")
          ELSE EndsWith(w.path, ".exe") <=> (platform = "win32")

C9_Witness_Win32Placed ==
    /\ platform = "win32" /\ pc = "fulfilled"
    /\ \E w \in ToolFiles : w.by = "steve" /\ EndsWith(w.path, "steve.exe")

BindReturned ==
    /\ tool = "kuberlrAndKubectl"
    /\ pc \in {"kubectl:stable", "kubectl:sha", "kubectl:findHome", "kubectl:download", "fulfilled"}

\* C10: on a host that is not Windows, whatever was at binKubectlPath, once
\* bindKubectlToKuberlr has returned the path is a symbolic link to 'kuberlr';
\* a link that pointed elsewhere was removed and created again, a link that
\* pointed to 'kuberlr' saw neither rm nor symlink.
C10_BindLeavesLinkToKuberlr ==
    (BindReturned /\ ~StartsWith(hostOS, "win")) =>
        /\ Exists(fs, binKubectlPath) /\ fs[binKubectlPath] = Link("kuberlr")
        /\ (prior.kind = "link" /\ prior.target # "kuberlr") => ops = <<"rm", "symlink">>
        /\ prior = Link("kuberlr") => ops = <<>>
        /\ prior.kind \in {"absent", "file", "link"}

C10_Witness_LinkRepaired ==
    /\ BindReturned /\ ~StartsWith(hostOS, "win")
    /\ prior = Link("kubectl.real")
    /\ fs[binKubectlPath] = Link("kuberlr")
    /\ ops = <<"rm", "symlink">>

\* ------------------------------------------- claims on downloadDependencies
Started == result # "idle" /\ status["helm"] # "idle"

\* C4: the ten tasks are started together, each once; downloadDependencies is
\* resolved exactly when all ten are fulfilled, it is rejected once a task is
\* rejected, and a settled result never changes.
C4_ResolvedIffAllFulfilled ==
    /\ Cardinality(TaskSet) = 10
    /\ (\A t \in TaskSet : status[t] = "idle") \/ (\A t \in TaskSet : status[t] # "idle")
    /\ \A t \in TaskSet : runs[t] <= 1 /\ (runs[t] = 1 <=> status[t] # "idle")
    /\ result = "resolved" <=> (\A t \in TaskSet : status[t] = "fulfilled")
    /\ (\E t \in TaskSet : status[t] = "rejected") => result = "rejected"
    /\ (Started /\ result = "pending") => (\E t \in TaskSet : status[t] = "pending")

C4_Witness_LastTaskRejects ==
    /\ result = "rejected"
    /\ Cardinality({t \in TaskSet : status[t] = "fulfilled"}) = 9
    /\ Cardinality({t \in TaskSet : status[t] = "rejected"}) = 1

\* C5: the rejection is reported with the first rejected task, whether or not
\* siblings are still pending; a pending sibling is not cancelled, it stays
\* pending until it settles by itself, and the files it writes after the
\* rejection are written all the same.
C5_RejectsAtFirstFailureNoCancel ==
    /\ (Started /\ \E t \in TaskSet : status[t] = "rejected") => result = "rejected"
    /\ \A t \in TaskSet : status[t] \in {"idle", "pending", "fulfilled", "rejected"}
    /\ \A t \in TaskSet \ {"rancherDashboard"} :
          status[t] = "fulfilled" => \A q \in Destinations(t) : [path |-> q, by |-> t] \in placed
    /\ lateWrite => result = "rejected"

C5_Witness_SiblingWritesAfterRejection ==
    /\ result = "rejected" /\ lateWrite
    /\ \E t \in TaskSet : status[t] = "pending"

\* C6: on every platform and for either value of M1 the destinations of two
\* different tasks have no path in common, and no path has been written by
\* two tasks.  (The destinations depend on the context only, which a run does
\* not change: they are compared in the state the run starts from.)
C6_DestinationsPairwiseDistinct ==
    /\ result = "idle" =>
          \A t1, t2 \in TaskSet : t1 # t2 => Destinations(t1) \cap Destinations(t2) = {}
    /\ \A w1, w2 \in placed : w1.path = w2.path => w1.by = w2.by

C6_Witness_AllPlacedLinuxM1 ==
    /\ rawPlatform = "linux" /\ m1 /\ result = "resolved"
    /\ \A t \in TaskSet : \E w \in placed : w.by = t
    /\ Cardinality({w.path : w \in placed}) = Cardinality(placed)

\* C8: when the extraction of the dashboard archive fails, downloadDependencies
\* does not resolve.
C8_ExtractFailureRejects ==
    extract = "failed" => result # "resolved"

\* ------------------------------------- claims on downloadKuberlrAndKubectl
KuberlrAndKubectlSucceeded == tool = "kuberlrAndKubectl" /\ pc = "fulfilled"

\* the entry a link in binDir leads to
ResolveInBinDir(target) == PathJoin(binDir, target)

\* C11: whatever the target platform and the host, once
\* downloadKuberlrAndKubectl has succeeded the kubectl entry of binDir is, for a
\* Windows target, a regular file with the content of the kuberlr binary, and
\* for any other target a symbolic link that leads to the existing kuberlr
\* binary.
C11_KubectlBoundToKuberlr ==
    KuberlrAndKubectlSucceeded =>
        /\ Exists(fs, binKubectlPath) /\ Exists(fs, kuberlrPath)
        /\ IF onWindowsTarget
           THEN /\ fs[binKubectlPath].kind = "file"
                /\ fs[binKubectlPath] = fs[kuberlrPath]
           ELSE /\ fs[binKubectlPath].kind = "link"
                /\ ResolveInBinDir(fs[binKubectlPath].target) = kuberlrPath

\* the candidates of findHome in its order, "" standing for one that is not set
HomeCandidates ==
    <<homeEnv.osHomeDir, homeEnv.HOME>>
    \o (IF onWindowsTarget
        THEN <<homeEnv.USERPROFILE,
               IF homeEnv.HOMEDRIVE # "" /\ homeEnv.HOMEPATH # ""
               THEN PathJoin(homeEnv.HOMEDRIVE, homeEnv.HOMEPATH) ELSE "">>
        ELSE <<>>)

UsableCandidates ==
    {i \in DOMAIN HomeCandidates :
        HomeCandidates[i] # "" /\ HomeCandidates[i] \in homeEnv.accessible}

ManagedCalls == {c \in calls : c.task = "kuberlrAndKubectl" /\ c.fn = "download"}

PastFindHome == tool = "kuberlrAndKubectl" /\ pc = "kubectl:download"

\* C12: findHome returns the first candidate that is set and accessible, in the
\* order os.homedir(), HOME and, for a Windows target only, USERPROFILE and
\* HOMEDRIVE+HOMEPATH, and throws when there is none.  When target and host
\* platform are the same the throw rejects downloadKuberlrAndKubectl and the
\* managed kubectl is requested once, under the home found; when they differ
\* the lookup and the request do not happen.
C12_FindHomeFirstAccessibleOrFatal ==
    LET home == findHome(onWindowsTarget, homeEnv)
    IN  /\ home.ok <=> UsableCandidates # {}
        /\ home.ok =>
              /\ home.value \in homeEnv.accessible
              /\ \E i \in UsableCandidates :
                    /\ home.value = HomeCandidates[i]
                    /\ \A j \in UsableCandidates : i <= j
        /\ tool = "kuberlrAndKubectl" =>
              /\ Cardinality(ManagedCalls) <= 1
              /\ (platform = hostOS /\ ~home.ok) => (pc # "fulfilled" /\ ManagedCalls = {})
              /\ (platform = hostOS /\ pc \in {"kubectl:download", "fulfilled"}) =>
                    /\ home.ok
                    /\ \A c \in ManagedCalls :
                          c.dest = managedKubectlPath(home.value, kubeVersion)
                    /\ ManagedCalls # {}
              /\ platform # hostOS =>
                    /\ ManagedCalls = {}
                    /\ pc \notin {"kubectl:stable", "kubectl:sha", "kubectl:findHome",
                                  "kubectl:download"}

C12_Witness_WindowsFallback ==
    /\ tool = "kuberlrAndKubectl" /\ pc = "fulfilled" /\ rawPlatform = "win32"
    /\ hostOS = "win32"
    /\ homeEnv.osHomeDir = "/home/u" /\ homeEnv.HOME = "/srv/u"
    /\ homeEnv.accessible = {"C:/Users/u"} /\ homeEnv.USERPROFILE = ""
    /\ \E c \in ManagedCalls : StartsWith(c.dest, "C:/Users/u/.kuberlr/")

\* C13: whenever resources/rancher-dashboard exists it is a directory holding
\* the content of a bundle that passed the checksum, never an empty one.
C13_DashboardDirPopulated ==
    Exists(fs, rancherDashboardDir) =>
        /\ fs[rancherDashboardDir].kind = "dir"
        /\ fs[rancherDashboardDir].data \in Digests

\* ------------------------------------------------- the moproxy service
\* The OpenRC script of moproxy.  One command runs at a time; OpenRC runs
\* start_post after a successful start and stop_pre before stop, and accepts
\* the commands of extra_started_commands only for a started service.
\* iptables --check tells whether the rule is in the chain, --append adds one
\* copy at the end, --delete removes one copy.
MaxRules == 3
MaxEnables == 3

Chains == <<"OUTPUT", "PREROUTING">>
ChainSet == {Chains[i] : i \in 1..Len(Chains)}
extra_started_commands == {"enable", "disable", "reload"}

At(fn, c) == fn \o ":" \o c
EnablePositions == {At("enable", c) : c \in ChainSet}
DisablePositions == {At("disable", c) : c \in ChainSet}

MoOther == <<ctxVars, csVars, toolVars, depVars, waitVars, launchVars>>

\* iptables_cmd check $1
iptables_check(c) == chain[c] > 0

\* rc-service moproxy start: start(), then start_post
MoStart ==
    /\ mpc = "idle" /\ svc = "stopped"
    /\ \E daemonOk \in BOOLEAN :
          IF daemonOk
          THEN /\ svc' = "starting" /\ mpc' = At("enable", "OUTPUT")
               /\ UNCHANGED mexit
          ELSE /\ mexit' = 1
               /\ UNCHANGED <<svc, mpc>>
    /\ mcmd' = "start"
    /\ UNCHANGED <<chain, menables, mforeign, mdel, MoOther>>

\* rc-service moproxy stop: stop_pre, then stop()
MoStop_NoStopPre ==
    /\ mpc = "idle" /\ svc = "started"
    /\ svc' = "stopping" /\ mpc' = "stop" /\ mcmd' = "stop" /\ mdel' = 0
    /\ UNCHANGED <<chain, mexit, menables, mforeign, MoOther>>

MoStop ==
    /\ mpc = "idle" /\ svc = "started"
    /\ svc' = "stopping" /\ mpc' = At("disable", "OUTPUT") /\ mcmd' = "stop" /\ mdel' = 0
    /\ UNCHANGED <<chain, mexit, menables, mforeign, MoOther>>

\* a command of extra_started_commands for a service that is not started
MoRefused ==
    /\ mpc = "idle" /\ svc = "stopped"
    /\ \E cmd \in extra_started_commands : mcmd' = cmd
    /\ mexit' = 1
    /\ UNCHANGED <<svc, chain, mpc, menables, mforeign, mdel, MoOther>>

\* rc-service moproxy enable
MoEnable ==
    /\ mpc = "idle" /\ svc = "started"
    /\ mcmd' = "enable" /\ mpc' = At("enable", "OUTPUT")
    /\ UNCHANGED <<svc, chain, mexit, menables, mforeign, mdel, MoOther>>

\* rc-service moproxy disable
MoDisable ==
    /\ mpc = "idle" /\ svc = "started"
    /\ mcmd' = "disable" /\ mpc' = At("disable", "OUTPUT") /\ mdel' = 0
    /\ UNCHANGED <<svc, chain, mexit, menables, mforeign, MoOther>>

\* rc-service moproxy reload: start-stop-daemon --signal HUP
MoReload ==
    /\ mpc = "idle" /\ svc = "started"
    /\ mcmd' = "reload"
    /\ \E signalled \in BOOLEAN : mexit' = IF signalled THEN 0 ELSE 1
    /\ UNCHANGED <<svc, chain, mpc, menables, mforeign, mdel, MoOther>>

\* the rule appended whether or not it is there
add_rule_to_chain_NoCheck(c) ==
    /\ mpc = At("enable", c)
    /\ chain' = [chain EXCEPT ![c] = IF @ < MaxRules THEN @ + 1 ELSE @]
    /\ IF c = "OUTPUT"
       THEN /\ mpc' = At("enable", "PREROUTING")
            /\ UNCHANGED <<svc, mexit, menables>>
       ELSE /\ mpc' = "idle" /\ mexit' = 0
            /\ svc' = IF mcmd = "start" THEN "started" ELSE svc
            /\ menables' = IF menables < MaxEnables THEN menables + 1 ELSE menables
    /\ UNCHANGED <<mcmd, mforeign, mdel, MoOther>>

\* add_rule_to_chain $1 inside enable; after the second chain enable returns,
\* and with it start_post
add_rule_to_chain(c) ==
    /\ mpc = At("enable", c)
    /\ chain' = IF ~iptables_check(c) THEN [chain EXCEPT ![c] = @ + 1] ELSE chain
    /\ IF c = "OUTPUT"
       THEN /\ mpc' = At("enable", "PREROUTING")
            /\ UNCHANGED <<svc, mexit, menables>>
       ELSE /\ mpc' = "idle" /\ mexit' = 0
            /\ svc' = IF mcmd = "start" THEN "started" ELSE svc
            /\ menables' = IF menables < MaxEnables THEN menables + 1 ELSE menables
    /\ UNCHANGED <<mcmd, mforeign, mdel, MoOther>>

\* remove_rule_from_chain $1 inside disable: one turn of the while loop, or
\* its end; after the second chain disable returns, and with it stop_pre
remove_rule_from_chain(c) ==
    /\ mpc = At("disable", c)
    /\ IF iptables_check(c)
       THEN /\ chain' = [chain EXCEPT ![c] = @ - 1]
            /\ mdel' = mdel + 1
            /\ UNCHANGED <<mpc, mexit, menables, mforeign>>
       ELSE /\ UNCHANGED <<chain, mdel>>
            /\ IF c = "OUTPUT"
               THEN /\ mpc' = At("disable", "PREROUTING")
                    /\ UNCHANGED <<mexit, menables, mforeign>>
               ELSE /\ mpc' = IF mcmd = "stop" THEN "stop" ELSE "idle"
                    /\ mexit' = 0 /\ menables' = 0 /\ mforeign' = FALSE
    /\ UNCHANGED <<svc, mcmd, MoOther>>

\* stop(): start-stop-daemon stops the daemon, or fails to
MoStopDaemon ==
    /\ mpc = "stop"
    /\ \E stopped \in BOOLEAN :
          /\ svc' = IF stopped THEN "stopped" ELSE "started"
          /\ mexit' = IF stopped THEN 0 ELSE 1
    /\ mpc' = "idle"
    /\ UNCHANGED <<chain, mcmd, menables, mforeign, mdel, MoOther>>

\* another writer of the nat table appends a copy of the rule while the
\* service runs: the copies the loop of remove_rule_from_chain is there for
ForeignAppend ==
    /\ mpc = "idle" /\ svc = "started"
    /\ \E c \in ChainSet :
          /\ chain[c] < MaxRules
          /\ chain' = [chain EXCEPT ![c] = @ + 1]
    /\ mforeign' = TRUE
    /\ UNCHANGED <<svc, mpc, mcmd, mexit, menables, mdel, MoOther>>

MoInit ==
    /\ svc = "stopped" /\ chain = [c \in ChainSet |-> 0]
    /\ mpc = "idle" /\ mcmd = "none" /\ mexit = 0
    /\ menables = 0 /\ mforeign = FALSE /\ mdel = 0
    /\ rawPlatform = "linux" /\ m1 = FALSE /\ hostOS = "linux" /\ homeEnv = HomeOk
    /\ ChecksumIdle /\ ToolsIdle /\ DepsIdle /\ WaitIdle /\ LaunchIdle

MoScript == \E c \in ChainSet : add_rule_to_chain(c) \/ remove_rule_from_chain(c)

MoNext ==
    \/ MoStart \/ MoStop \/ MoRefused \/ MoEnable \/ MoDisable \/ MoReload
    \/ MoScript \/ MoStopDaemon \/ ForeignAppend

SpecMoproxy == MoInit /\ [][MoNext]_vars

\* the shell goes on with the command it runs
SpecMoproxyLive == MoInit /\ [][MoNext]_vars /\ WF_vars(MoScript) /\ WF_vars(MoStopDaemon)

\* -------------------------------------------------- claims on moproxy
NoRedirect == \A c \in ChainSet : chain[c] = 0

\* C14: the chains hold the redirect rule only from start_post to stop_pre: a
\* stopped service has no rule in OUTPUT nor in PREROUTING, and enable,
\* disable and reload have run only for a started service.
C14_StoppedHasNoRedirect ==
    /\ svc = "stopped" => NoRedirect
    /\ ~NoRedirect =>
          \/ svc = "started"
          \/ svc = "starting" /\ mpc \in EnablePositions
          \/ svc = "stopping" /\ mpc \in DisablePositions
    /\ (mcmd \in extra_started_commands /\ svc # "started") => (mexit = 1 /\ mpc = "idle")

C14_Witness_StopRemovedRules ==
    /\ svc = "stopped" /\ mcmd = "stop" /\ mpc = "idle" /\ mdel >= 2

OnlyScriptWrote == ~mforeign

\* C15: with the rule the same, after one or more enable runs each chain
\* holds exactly one copy (the script being the only writer); after disable
\* no chain holds a copy, however many there were; and a disable that has begun
\* comes to its end.
C15_EnableIdempotentDisableComplete ==
    /\ []((mpc = "idle" /\ menables >= 1 /\ OnlyScriptWrote) =>
             \A c \in ChainSet : chain[c] = 1)
    /\ []((mpc \in {"idle", "stop"} /\ menables = 0 /\ OnlyScriptWrote) => NoRedirect)
    /\ ((mpc \in DisablePositions) ~> (mpc \notin DisablePositions))

C15_Witness_DuplicatesRemoved ==
    /\ mpc = "idle" /\ mcmd = "disable" /\ mdel >= 4 /\ NoRedirect /\ OnlyScriptWrote

C15_Witness_EnabledThrice ==
    /\ mpc = "idle" /\ menables = 3 /\ OnlyScriptWrote /\ \A c \in ChainSet : chain[c] = 1

\* ---------------------------------------- wait_for_extension_manager
\* local count=0 max=30 message
max == 30

Unavailable == "503 Service Unavailable"

\* what rdctl api /extensions may answer: exit status and the .message of its
\* output (no message on success, or when the output has none)
Answers ==
    {[status |-> 0, message |-> ""],
     [status |-> 1, message |-> Unavailable],
     [status |-> 1, message |-> "500 Internal Server Error"],
     [status |-> 1, message |-> ""]}

WaitOther == <<ctxVars, csVars, toolVars, depVars, moVars, launchVars>>

\* run --separate-stderr rdctl api /extensions
WaitRun ==
    /\ wpc = "run"
    /\ \E a \in Answers : rdctlStatus' = a.status /\ rdctlMessage' = a.message
    /\ ncalls' = ncalls + 1
    /\ wpc' = "test"
    /\ UNCHANGED <<count, message, nsleeps, WaitOther>>

\* the test with count++ in place of ++count
WaitTest_PostIncrement ==
    /\ wpc = "test"
    /\ IF rdctlStatus = 0
       THEN wpc' = "returned" /\ UNCHANGED <<count, message>>
       ELSE /\ count' = count + 1
            /\ IF count >= max
               THEN wpc' = "returned" /\ UNCHANGED message
               ELSE /\ message' = rdctlMessage
                    /\ wpc' = IF message' = Unavailable THEN "sleep" ELSE "failed"
    /\ UNCHANGED <<rdctlStatus, rdctlMessage, ncalls, nsleeps, WaitOther>>

\* if ((status == 0 || ++count >= max)); then break; fi
\* message=$(jq_output .message); output="$message" assert_output "503 ..."
WaitTest ==
    /\ wpc = "test"
    /\ IF rdctlStatus = 0
       THEN wpc' = "returned" /\ UNCHANGED <<count, message>>
       ELSE /\ count' = count + 1
            /\ IF count' >= max
               THEN wpc' = "returned" /\ UNCHANGED message
               ELSE /\ message' = rdctlMessage
                    /\ wpc' = IF message' = Unavailable THEN "sleep" ELSE "failed"
    /\ UNCHANGED <<rdctlStatus, rdctlMessage, ncalls, nsleeps, WaitOther>>

\* sleep 10, and round the loop
WaitSleep ==
    /\ wpc = "sleep"
    /\ nsleeps' = nsleeps + 1
    /\ wpc' = "run"
    /\ UNCHANGED <<count, rdctlStatus, rdctlMessage, message, ncalls, WaitOther>>

WaitInit ==
    /\ wpc = "run" /\ count = 0 /\ rdctlStatus = 0 /\ rdctlMessage = "" /\ message = ""
    /\ ncalls = 0 /\ nsleeps = 0
    /\ rawPlatform = "linux" /\ m1 = FALSE /\ hostOS = "linux" /\ homeEnv = HomeOk
    /\ ChecksumIdle /\ ToolsIdle /\ DepsIdle /\ MoIdle /\ LaunchIdle

WaitNext == WaitRun \/ WaitTest \/ WaitSleep

\* the shell goes on with the function
SpecWaitLive == WaitInit /\ [][WaitNext]_vars /\ WF_vars(WaitNext)

WaitEnded == wpc \in {"returned", "failed"}

\* C16 as stated, on the messages: a call that failed with another message than
\* '503 Service Unavailable' has made the assertion fail.
C16_OtherMessageFailsAssertion ==
    (wpc \notin {"run", "test"} /\ rdctlStatus # 0 /\ rdctlMessage # Unavailable)
        => wpc = "failed"

\* C16, amended: the function ends, after at most 30 calls; it returns at the
\* first call with status 0 and at the 30th failed call, whose message is not
\* looked at; each of the failed calls before had the message
\* '503 Service Unavailable' and was followed by a sleep, or had another
\* message and made the assertion fail.
C16_WaitEndsWithin30Calls ==
    /\ <>WaitEnded
    /\ [](ncalls <= max /\ count <= max)
    /\ [](nsleeps <= ncalls /\ (wpc = "sleep" => (rdctlStatus # 0 /\ rdctlMessage = Unavailable)))
    /\ [](wpc = "returned" =>
             \/ rdctlStatus = 0 /\ ncalls = count + 1 /\ nsleeps = count
             \/ rdctlStatus # 0 /\ ncalls = max /\ count = max /\ nsleeps = max - 1)
    /\ [](wpc = "failed" =>
             /\ rdctlStatus # 0 /\ rdctlMessage # Unavailable
             /\ ncalls = count /\ count < max /\ nsleeps = count - 1)

C16_Witness_ThirtyUnavailable ==
    /\ wpc = "returned" /\ ncalls = 30 /\ nsleeps = 29
    /\ rdctlStatus # 0 /\ rdctlMessage = Unavailable

\* ------------------------------------ apify_arg, launch_the_application
MaxArgs == 2

LowerCase == "abcdefghijklmnopqrstuvwxyz"
UpperCase == "ABCDEFGHIJKLMNOPQRSTUVWXYZ"
Digits == "0123456789"

\* \w of a Perl regular expression
IsWord(c) ==
    \/ \E i \in 1..Len(LowerCase) : c \in {CharAt(LowerCase, i), CharAt(UpperCase, i)}
    \/ \E i \in 1..Len(Digits) : c = CharAt(Digits, i)
    \/ c = "_"

\* \U on one character
uc(c) ==
    IF \E i \in 1..Len(LowerCase) : c = CharAt(LowerCase, i)
    THEN CharAt(UpperCase, CHOOSE i \in 1..Len(LowerCase) : c = CharAt(LowerCase, i))
    ELSE c

\* the position of the first occurrence of pat in str, 0 when there is none
IndexOf(str, pat) ==
    LET at == {i \in 1..(Len(str) - Len(pat) + 1) : SubSeq(str, i, i + Len(pat) - 1) = pat}
    IN  IF at = {} THEN 0 ELSE CHOOSE i \in at : \A j \in at : i <= j

\* split /=/, shift, 2: the part before the first '=' and, when there is an
\* '=', the part after it, which may be empty and may hold more '=' signs
Split2(arg) ==
    LET i == IndexOf(arg, "=")
    IN  IF i = 0
        THEN [name |-> arg, defined |-> FALSE, value |-> ""]
        ELSE [name |-> SubSeq(arg, 1, i - 1), defined |-> TRUE,
              value |-> SubSeq(arg, i + 1, Len(arg))]

\* s/(\w)-(\w)/$1\U$2/g: the matches are found left to right and do not overlap
RECURSIVE SubstKebab(_, _)
SubstKebab(str, i) ==
    IF i > Len(str) THEN ""
    ELSE IF /\ i + 2 <= Len(str)
            /\ IsWord(CharAt(str, i))
            /\ CharAt(str, i + 1) = "-"
            /\ IsWord(CharAt(str, i + 2))
         THEN CharAt(str, i) \o uc(CharAt(str, i + 2)) \o SubstKebab(str, i + 3)
         ELSE CharAt(str, i) \o SubstKebab(str, i + 1)

\* s/pat/rep/ with a literal pattern: the first occurrence only
SubstFirst(str, pat, rep) ==
    LET i == IndexOf(str, pat)
    IN  IF i = 0 THEN str
        ELSE SubSeq(str, 1, i - 1) \o rep \o SubSeq(str, i + Len(pat), Len(str))

\* the truth of a defined Perl string: all but the empty string and "0"
PerlTrue(v) == v \notin {"", "0"}

\* the name part as apify_arg prints it
apify_name(name) ==
    IF StartsWith(name, "--")
    THEN SubstFirst(
             SubstFirst(
                 SubstFirst(SubstKebab(name, 1), "memoryInGb", "memoryInGB"),
                 "numberCpus", "numberCPUs"),
             "--wsl", "--WSL")
    ELSE name

\* print; print "=$value" if $value;
apify_arg(arg) ==
    LET parts == Split2(arg)
    IN  apify_name(parts.name)
            \o (IF parts.defined /\ PerlTrue(parts.value) THEN "=" \o parts.value ELSE "")

OptionNames ==
    {"--virtual-machine.memory-in-gb", "--virtual-machine.number-cpus",
     "--wsl.integrations", "--kubernetes.enabled", "--kubernetes.port",
     "--container-engine.name", "--application.path-management-strategy",
     "container-engine.name"}

OptionValues == {"", "0", "6", "false", "moby", "a=b", "rc-files", "00"}

Arguments == OptionNames \cup {n \o "=" \o v : n \in OptionNames, v \in OptionValues}

LaunchOther == <<ctxVars, csVars, toolVars, depVars, moVars, waitVars>>

\* for arg in "${args[@]}"; do api_args+=("$(apify_arg "$arg")"); done
LaunchApify ==
    /\ argi < Len(args)
    /\ argi' = argi + 1
    /\ api_args' = Append(api_args, apify_arg(args[argi + 1]))
    /\ UNCHANGED <<args, LaunchOther>>

\* if suppressing_modal_dialogs; then api_args+=(--no-modal-dialogs); fi
\* yarn dev "${api_args[@]}" &
LaunchYarnDev ==
    /\ argi = Len(args)
    /\ \E suppressing_modal_dialogs \in BOOLEAN :
          api_args' = IF suppressing_modal_dialogs
                      THEN Append(api_args, "--no-modal-dialogs")
                      ELSE api_args
    /\ argi' = argi + 1
    /\ UNCHANGED <<args, LaunchOther>>

\* launch_the_application "${args[@]}" with using_dev_mode true
LaunchInit ==
    /\ \E n \in 1..MaxArgs : args \in [1..n -> Arguments]
    /\ argi = 0 /\ api_args = <<>>
    /\ rawPlatform = "linux" /\ m1 = FALSE /\ hostOS = "linux" /\ homeEnv = HomeOk
    /\ ChecksumIdle /\ ToolsIdle /\ DepsIdle /\ MoIdle /\ WaitIdle

LaunchNext == LaunchApify \/ LaunchYarnDev

SpecLaunch == LaunchInit /\ [][LaunchNext]_vars

\* C17: every argument name=value is handed on as the changed name, an '=' and
\* the value, whatever the value is: '0', empty, or holding '=' or '-'.
C17_ValueEmittedUnmodified ==
    \A i \in 1..Len(args) :
        (i <= argi /\ i <= Len(api_args)) =>
            \A n \in OptionNames, v \in OptionValues :
                args[i] = n \o "=" \o v => api_args[i] = apify_name(n) \o "=" \o v

\* the values that are handed on: all but '0' and the empty one
C17_TrueValueEmittedUnmodified ==
    \A i \in 1..Len(args) :
        (i <= argi /\ i <= Len(api_args)) =>
            \A n \in OptionNames, v \in OptionValues :
                args[i] = n \o "=" \o v =>
                    api_args[i] = apify_name(n) \o (IF PerlTrue(v) THEN "=" \o v ELSE "")

\* the name part: camelCase with the three fix-ups, for these names
C17_NamesInApiFormat ==
    /\ apify_name("--virtual-machine.memory-in-gb") = "--virtualMachine.memoryInGB"
    /\ apify_name("--virtual-machine.number-cpus") = "--virtualMachine.numberCPUs"
    /\ apify_name("--wsl.integrations") = "--WSL.integrations"
    /\ apify_name("--application.path-management-strategy") = "--application.pathManagementStrategy"
    /\ apify_name("container-engine.name") = "container-engine.name"
    /\ apify_arg("--container-engine.name=a=b") = "--containerEngine.name=a=b"
    /\ apify_arg("--container-engine.name=rc-files") = "--containerEngine.name=rc-files"

====
